---- MODULE Spec2Model ----
(***************************************************************************)
(* CredexPool: the share-based liquidity vault and the per-agent credit    *)
(* ledger with lazy interest accrual.  Every external function of the      *)
(* contract is one action; a call that reverts leaves the contract state   *)
(* as it was and records the revert reason in lastOp.  Amounts stay far     *)
(* below 2^256, so of the checked uint256 arithmetic only the subtractions *)
(* and divisions can fail (Panic 0x11, 0x12).                              *)
(***************************************************************************)
EXTENDS Integers, FiniteSets, Sequences, TLC

\* ------------------------------------------------------------------ bounds
\* block.timestamp of the deployment and the last timestamp explored
StartTime == 1
MaxTime == 181
\* successful state-changing calls explored in one run
MaxCalls == 6
\* the same where every address calls the ledger and the owner replaces the operator
MaxAdminCalls == 5
\* tokens minted to the participants before the first call
MintLP1 == 4000
MintLP2 == 2
MintAgent1 == 10
MintAgent2 == 0
\* the same for the ledger writes the orchestrator submits
MaxOrchCalls == 4
\* what lp1 has in the pool when the orchestrator starts serving requests
OrchFunding == 100000

\* ------------------------------------------------------- program constants
INTEREST_RATE_BP == 10
ACCRUAL_INTERVAL == 60
\* credit limit policy of the orchestrator, in token base units
INITIAL_LIMIT_BASE == 50000
GROWTH_FACTOR_BP == 110
MAX_LIMIT == 10000 * 1000000

\* ------------------------------------------------------------ participants
LPs == {"lp1", "lp2"}
AgentIds == {"agent1", "agent2"}
Operators == {"op1", "op2"}
Deployer == "owner"
Pool == "pool"
Holders == LPs \cup AgentIds \cup {Pool}

\* inputs of the calls: lp1 moves lots, lp2 single units
DepositAmounts == [lp1 |-> {0, 2000}, lp2 |-> {1, 2}]
WithdrawShares == [lp1 |-> {0, 1000}, lp2 |-> {1}]
CreditLimits == {1000, 2000}
BorrowAmounts == {1000, 1001}
RepayAmounts == {500, 5000}
WarpStep == 90

\* what every holder has before the first call
Minted == [lp1 |-> MintLP1, lp2 |-> MintLP2, agent1 |-> MintAgent1,
           agent2 |-> MintAgent2, pool |-> 0]

VARIABLES
    agents,          \* mapping(address => AgentAccount)
    lpShares,        \* mapping(address => uint256)
    totalShares,
    totalLiquidity,
    globalTotalDebt,
    credexAgent,
    owner,
    usdc,            \* balanceOf of the USDC token
    now,             \* block.timestamp
    lastOp,          \* the last call and how it ended
    nCalls,          \* successful calls made so far
    reqs,            \* the orchestrator's requests: where each stands
    calc             \* a function applied on its own: its arguments and value

vars == <<agents, lpShares, totalShares, totalLiquidity, globalTotalDebt,
          credexAgent, owner, usdc, now, lastOp, nCalls, reqs, calc>>

poolVars == <<agents, lpShares, totalShares, totalLiquidity, globalTotalDebt,
              credexAgent, owner, usdc>>

\* the zero value of the AgentAccount struct
AgentAccount == [debt |-> 0, principal |-> 0, creditLimit |-> 0,
                 lastAccrued |-> 0, lastRepayment |-> 0,
                 frozen |-> FALSE, active |-> FALSE]

Ok == "ok"

\* a call that does not revert is counted
Count(res) == nCalls' = IF res = Ok THEN nCalls + 1 ELSE nCalls

\* a call by sender on the position or account of who, and how it ended
CalledBy(sender, op, who, amount, res) ==
    [op |-> op, who |-> who, amount |-> amount, res |-> res, by |-> sender]

\* a call on the caller's own position
Called(op, who, amount, res) == CalledBy(who, op, who, amount, res)

\* the requests the orchestrator serves at a time, and one not yet received
Requests == {"r1", "r2"}

\* what the feedback feed answers to one query: the scores of the events in
\* the lookback window, or a failure of the query
NoFeed == [ok |-> TRUE, scores |-> <<>>]

\* handle and feed are the agentId a request carries and the feed's answer
\* to it; prior is the ledger's limit when the repayment was mined;
\* available is the figure a status response reports
NoRequest ==
    [pc |-> "idle", kind |-> "none", agent |-> "none", amount |-> 0,
     auto |-> FALSE, seen |-> AgentAccount, limit |-> 0,
     handle |-> 0, feed |-> NoFeed, prior |-> 0, available |-> 0,
     success |-> FALSE, message |-> ""]

\* no function is being applied on its own
NoCalc == [op |-> "none"]

Init ==
    /\ reqs = [r \in Requests |-> NoRequest]
    /\ calc = NoCalc
    /\ agents = [a \in AgentIds |-> AgentAccount]
    /\ lpShares = [p \in LPs |-> 0]
    /\ totalShares = 0
    /\ totalLiquidity = 0
    /\ globalTotalDebt = 0
    /\ credexAgent = "op1"
    /\ owner = Deployer
    /\ usdc = Minted
    /\ now = StartTime
    /\ lastOp = Called("constructor", Deployer, 0, Ok)
    /\ nCalls = 0

\* ------------------------------------------------------------------- views
totalDebt == globalTotalDebt

totalAssets == totalLiquidity + totalDebt

\* ---------------------------------------------------------------- internal
\* an accrual that charges one interval however many have elapsed
_accrueInterestOneInterval(acc, t) ==
    IF acc.lastAccrued = 0 \/ acc.debt = 0 THEN acc
    ELSE LET elapsed == t - acc.lastAccrued
             intervals == elapsed \div ACCRUAL_INTERVAL
             interest == (acc.debt * INTEREST_RATE_BP) \div 10000
         IN IF intervals > 0
            THEN [acc EXCEPT !.debt = acc.debt + interest,
                             !.lastAccrued = acc.lastAccrued + intervals * ACCRUAL_INTERVAL]
            ELSE acc

\* the account after _accrueInterest at time t
_accrueInterest(acc, t) ==
    IF acc.lastAccrued = 0 \/ acc.debt = 0 THEN acc
    ELSE LET elapsed == t - acc.lastAccrued
             intervals == elapsed \div ACCRUAL_INTERVAL
             interest == (acc.debt * INTEREST_RATE_BP * intervals) \div 10000
         IN IF intervals > 0
            THEN [acc EXCEPT !.debt = acc.debt + interest,
                             !.lastAccrued = acc.lastAccrued + intervals * ACCRUAL_INTERVAL]
            ELSE acc

\* the tracker left as it was while the account accrues
staleTotalDebt(agent) == globalTotalDebt

\* globalTotalDebt after _accrueInterest(agent): the tracker takes the interest too
accruedTotalDebt(agent) ==
    globalTotalDebt + (_accrueInterest(agents[agent], now).debt - agents[agent].debt)

\* ---------------------------------------------------------------- the token
\* USDC.transfer / USDC.transferFrom: value moves between two holders; the
\* call reverts when the payer holds less than value.  The payer's approve
\* precedes every pull.
tokenPays(from, value) == usdc[from] >= value

tokenMove(from, to, value) ==
    [usdc EXCEPT ![from] = @ - value, ![to] = @ + value]

TokenReason == "ERC20: insufficient balance"

\* ------------------------------------------------------------ LP functions
\* shares priced from the totals as they are after the deposit
sharesForAfter(assets, _totalShares, _totalAssets) ==
    IF _totalShares = 0 THEN assets
    ELSE (assets * _totalShares) \div (_totalAssets + assets)

\* shares priced against the cash in the pool, the lent funds left out
sharesForOnCash(assets, _totalShares, _totalAssets) ==
    IF _totalShares = 0 \/ totalLiquidity = 0 THEN assets
    ELSE (assets * _totalShares) \div totalLiquidity

\* shares minted for assets, from the totals read before the deposit
sharesFor(assets, _totalShares, _totalAssets) ==
    IF _totalShares = 0 THEN assets
    ELSE (assets * _totalShares) \div _totalAssets

depositReason(sender, assets) ==
    IF ~(assets > 0) THEN "Zero amount"
    ELSE IF totalShares # 0 /\ totalAssets = 0 THEN "Panic(0x12)"
    ELSE IF ~tokenPays(sender, assets) THEN TokenReason
    ELSE Ok

depositEffect(sender, assets) ==
    LET shares == sharesFor(assets, totalShares, totalAssets)
    IN [usdc |-> tokenMove(sender, Pool, assets),
        lpShares |-> [lpShares EXCEPT ![sender] = @ + shares],
        totalShares |-> totalShares + shares,
        totalLiquidity |-> totalLiquidity + assets]

deposit(sender, assets) ==
    LET res == depositReason(sender, assets)
        eff == depositEffect(sender, assets)
    IN /\ lastOp' = Called("deposit", sender, assets, res)
       /\ Count(res)
       /\ UNCHANGED <<now, agents, globalTotalDebt, credexAgent, owner>>
       /\ IF res = Ok
          THEN /\ usdc' = eff.usdc
               /\ lpShares' = eff.lpShares
               /\ totalShares' = eff.totalShares
               /\ totalLiquidity' = eff.totalLiquidity
          ELSE UNCHANGED <<usdc, lpShares, totalShares, totalLiquidity>>

\* shares redeemed at one asset each, whatever the pool has earned
assetsForAtPar(shares, _totalShares, _totalAssets) == shares

\* assets released for shares, from the totals read before the withdrawal
assetsFor(shares, _totalShares, _totalAssets) ==
    (shares * _totalAssets) \div _totalShares

\* a withdrawal checked against the provider's shares only
withdrawReasonSharesOnly(sender, shares) ==
    IF ~(shares > 0) THEN "Zero shares"
    ELSE IF ~(lpShares[sender] >= shares) THEN "Insufficient shares"
    ELSE IF totalShares = 0 THEN "Panic(0x12)"
    ELSE IF ~tokenPays(Pool, assetsFor(shares, totalShares, totalAssets)) THEN TokenReason
    ELSE Ok

\* the requires of withdraw, the division and the transfer
withdrawReason(sender, shares) ==
    IF ~(shares > 0) THEN "Zero shares"
    ELSE IF ~(lpShares[sender] >= shares) THEN "Insufficient shares"
    ELSE IF totalShares = 0 THEN "Panic(0x12)"
    ELSE IF ~(totalLiquidity >= assetsFor(shares, totalShares, totalAssets))
         THEN "Insufficient pool liquidity"
    ELSE IF ~tokenPays(Pool, assetsFor(shares, totalShares, totalAssets)) THEN TokenReason
    ELSE Ok

\* a withdrawal that burns the total but not the provider's shares
withdrawEffectKeepsShares(sender, shares) ==
    LET assets == assetsFor(shares, totalShares, totalAssets)
    IN [lpShares |-> lpShares,
        totalShares |-> totalShares - shares,
        totalLiquidity |-> totalLiquidity - assets,
        usdc |-> tokenMove(Pool, sender, assets)]

\* a withdrawal that burns the provider's shares but not the total
withdrawEffectKeepsTotal(sender, shares) ==
    LET assets == assetsFor(shares, totalShares, totalAssets)
    IN [lpShares |-> [lpShares EXCEPT ![sender] = @ - shares],
        totalShares |-> totalShares,
        totalLiquidity |-> totalLiquidity - assets,
        usdc |-> tokenMove(Pool, sender, assets)]

withdrawEffect(sender, shares) ==
    LET assets == assetsFor(shares, totalShares, totalAssets)
    IN [lpShares |-> [lpShares EXCEPT ![sender] = @ - shares],
        totalShares |-> totalShares - shares,
        totalLiquidity |-> totalLiquidity - assets,
        usdc |-> tokenMove(Pool, sender, assets)]

withdraw(sender, shares) ==
    LET res == withdrawReason(sender, shares)
        eff == withdrawEffect(sender, shares)
    IN /\ lastOp' = Called("withdraw", sender, shares, res)
       /\ Count(res)
       /\ UNCHANGED <<now, agents, globalTotalDebt, credexAgent, owner>>
       /\ IF res = Ok
          THEN /\ lpShares' = eff.lpShares
               /\ totalShares' = eff.totalShares
               /\ totalLiquidity' = eff.totalLiquidity
               /\ usdc' = eff.usdc
          ELSE UNCHANGED <<usdc, lpShares, totalShares, totalLiquidity>>

\* --------------------------------------------------------- agent functions
\* a check against the operator named at deployment
onlyAgentAtDeployment(sender) == sender = "op1"

onlyAgent(sender) == sender = credexAgent

onlyOwner(sender) == sender = owner

\* an onboarding that accepts an account whatever its state
onboardAgentReasonAnyAccount(sender, agent) ==
    IF ~onlyAgent(sender) THEN "Not Credex agent"
    ELSE Ok

onboardAgentReason(sender, agent) ==
    IF ~onlyAgent(sender) THEN "Not Credex agent"
    ELSE IF agents[agent].active THEN "Already onboarded"
    ELSE Ok

onboardAgent(sender, agent, creditLimit) ==
    LET res == onboardAgentReason(sender, agent)
    IN /\ lastOp' = CalledBy(sender, "onboardAgent", agent, creditLimit, res)
       /\ Count(res)
       /\ UNCHANGED <<now, lpShares, totalShares, totalLiquidity, globalTotalDebt,
                      credexAgent, owner, usdc>>
       /\ IF res = Ok
          THEN agents' = [agents EXCEPT ![agent] =
                            [debt |-> 0, principal |-> 0, creditLimit |-> creditLimit,
                             lastAccrued |-> now, lastRepayment |-> now,
                             frozen |-> FALSE, active |-> TRUE]]
          ELSE UNCHANGED agents

setCreditLimitReason(sender, agent) ==
    IF ~onlyAgent(sender) THEN "Not Credex agent"
    ELSE IF ~agents[agent].active THEN "Not active"
    ELSE Ok

setCreditLimit(sender, agent, newLimit) ==
    LET res == setCreditLimitReason(sender, agent)
    IN /\ lastOp' = CalledBy(sender, "setCreditLimit", agent, newLimit, res)
       /\ Count(res)
       /\ UNCHANGED <<now, lpShares, totalShares, totalLiquidity, globalTotalDebt,
                      credexAgent, owner, usdc>>
       /\ IF res = Ok
          THEN agents' = [agents EXCEPT ![agent].creditLimit = newLimit]
          ELSE UNCHANGED agents

\* a borrow limit checked against the debt instead of the principal
borrowReasonOnDebt(sender, agent, amount) ==
    LET acc == _accrueInterest(agents[agent], now)
    IN IF ~onlyAgent(sender) THEN "Not Credex agent"
       ELSE IF ~agents[agent].active THEN "Not active"
       ELSE IF agents[agent].frozen THEN "Account frozen"
       ELSE IF ~(acc.debt + amount <= acc.creditLimit) THEN "Exceeds limit"
       ELSE IF ~(totalLiquidity >= amount) THEN "Insufficient liquidity"
       ELSE IF ~tokenPays(Pool, amount) THEN TokenReason
       ELSE Ok

\* the require chain of borrow, in the order the code evaluates it
borrowReason(sender, agent, amount) ==
    LET acc == _accrueInterest(agents[agent], now)
    IN IF ~onlyAgent(sender) THEN "Not Credex agent"
       ELSE IF ~agents[agent].active THEN "Not active"
       ELSE IF agents[agent].frozen THEN "Account frozen"
       ELSE IF ~(acc.principal + amount <= acc.creditLimit) THEN "Exceeds limit"
       ELSE IF ~(totalLiquidity >= amount) THEN "Insufficient liquidity"
       ELSE IF ~tokenPays(Pool, amount) THEN TokenReason
       ELSE Ok

\* a borrow that pays out without taking the amount off totalLiquidity
borrowEffectKeepsLiquidity(agent, amount) ==
    LET acc == _accrueInterest(agents[agent], now)
    IN [agents |-> [agents EXCEPT ![agent] =
                      [acc EXCEPT !.principal = acc.principal + amount,
                                  !.debt = acc.debt + amount]],
        totalLiquidity |-> totalLiquidity,
        globalTotalDebt |-> accruedTotalDebt(agent) + amount,
        usdc |-> tokenMove(Pool, agent, amount)]

borrowEffect(agent, amount) ==
    LET acc == _accrueInterest(agents[agent], now)
    IN [agents |-> [agents EXCEPT ![agent] =
                      [acc EXCEPT !.principal = acc.principal + amount,
                                  !.debt = acc.debt + amount]],
        totalLiquidity |-> totalLiquidity - amount,
        globalTotalDebt |-> accruedTotalDebt(agent) + amount,
        usdc |-> tokenMove(Pool, agent, amount)]

\* a borrow whose accrual outlives the require that fails after it
borrowCommitsAccrual(sender, agent, amount) ==
    LET res == borrowReason(sender, agent, amount)
        eff == borrowEffect(agent, amount)
    IN /\ lastOp' = CalledBy(sender, "borrow", agent, amount, res)
       /\ Count(res)
       /\ UNCHANGED <<now, lpShares, totalShares, credexAgent, owner>>
       /\ IF res = Ok
          THEN /\ agents' = eff.agents
               /\ totalLiquidity' = eff.totalLiquidity
               /\ globalTotalDebt' = eff.globalTotalDebt
               /\ usdc' = eff.usdc
          ELSE IF res \in {"Exceeds limit", "Insufficient liquidity"}
          THEN /\ agents' = [agents EXCEPT ![agent] = _accrueInterest(@, now)]
               /\ globalTotalDebt' = accruedTotalDebt(agent)
               /\ UNCHANGED <<totalLiquidity, usdc>>
          ELSE UNCHANGED <<agents, totalLiquidity, globalTotalDebt, usdc>>

borrow(sender, agent, amount) ==
    LET res == borrowReason(sender, agent, amount)
        eff == borrowEffect(agent, amount)
    IN /\ lastOp' = CalledBy(sender, "borrow", agent, amount, res)
       /\ Count(res)
       /\ UNCHANGED <<now, lpShares, totalShares, credexAgent, owner>>
       /\ IF res = Ok
          THEN /\ agents' = eff.agents
               /\ totalLiquidity' = eff.totalLiquidity
               /\ globalTotalDebt' = eff.globalTotalDebt
               /\ usdc' = eff.usdc
          ELSE UNCHANGED <<agents, totalLiquidity, globalTotalDebt, usdc>>

\* a repayment that pulls what was asked
repayAmountUncapped(acc, amount) == amount

\* the amount repay pulls: the request capped at the accrued debt
repayAmount(acc, amount) == IF amount > acc.debt THEN acc.debt ELSE amount

\* an allocation that pays principal before interest
repayAllocationPrincipalFirst(acc, amount, t) ==
    LET principalRepaid == IF amount > acc.principal THEN acc.principal ELSE amount
    IN [acc EXCEPT !.debt = acc.debt - amount,
                   !.principal = acc.principal - principalRepaid,
                   !.lastRepayment = t]

\* an allocation that reduces debt and never the principal
repayAllocationDebtOnly(acc, amount, t) ==
    [acc EXCEPT !.debt = acc.debt - amount, !.lastRepayment = t]

\* an allocation that lifts the freeze of the account it credits
repayAllocationUnfreezes(acc, amount, t) ==
    LET interestOwed == acc.debt - acc.principal
    IN IF amount <= interestOwed
       THEN [acc EXCEPT !.debt = acc.debt - amount,
                        !.lastRepayment = t, !.frozen = FALSE]
       ELSE [acc EXCEPT !.debt = acc.debt - amount,
                        !.principal = acc.principal - (amount - interestOwed),
                        !.lastRepayment = t, !.frozen = FALSE]

\* the account after the interest-first allocation of a pulled amount
repayAllocation(acc, amount, t) ==
    LET interestOwed == acc.debt - acc.principal
    IN IF amount <= interestOwed
       THEN [acc EXCEPT !.debt = acc.debt - amount,
                        !.lastRepayment = t]
       ELSE [acc EXCEPT !.debt = acc.debt - amount,
                        !.principal = acc.principal - (amount - interestOwed),
                        !.lastRepayment = t]

\* a repayment refused while the account is frozen
repayReasonUnlessFrozen(sender, agent, amount) ==
    LET acc == _accrueInterest(agents[agent], now)
        capped == repayAmount(acc, amount)
    IN IF ~onlyAgent(sender) THEN "Not Credex agent"
       ELSE IF ~agents[agent].active THEN "Not active"
       ELSE IF agents[agent].frozen THEN "Account frozen"
       ELSE IF ~tokenPays(agent, capped) THEN TokenReason
       ELSE IF acc.debt < acc.principal THEN "Panic(0x11)"
       ELSE IF accruedTotalDebt(agent) < capped THEN "Panic(0x11)"
       ELSE Ok

\* the require of repay, the pull and the checked subtractions
repayReason(sender, agent, amount) ==
    LET acc == _accrueInterest(agents[agent], now)
        capped == repayAmount(acc, amount)
    IN IF ~onlyAgent(sender) THEN "Not Credex agent"
       ELSE IF ~agents[agent].active THEN "Not active"
       ELSE IF ~tokenPays(agent, capped) THEN TokenReason
       ELSE IF acc.debt < acc.principal THEN "Panic(0x11)"
       ELSE IF accruedTotalDebt(agent) < capped THEN "Panic(0x11)"
       ELSE Ok

repayEffect(agent, amount) ==
    LET acc == _accrueInterest(agents[agent], now)
        capped == repayAmount(acc, amount)
    IN [usdc |-> tokenMove(agent, Pool, capped),
        agents |-> [agents EXCEPT ![agent] = repayAllocation(acc, capped, now)],
        globalTotalDebt |-> accruedTotalDebt(agent) - capped,
        totalLiquidity |-> totalLiquidity + capped]

repay(sender, agent, amount) ==
    LET res == repayReason(sender, agent, amount)
        eff == repayEffect(agent, amount)
    IN /\ lastOp' = CalledBy(sender, "repay", agent, amount, res)
       /\ Count(res)
       /\ UNCHANGED <<now, lpShares, totalShares, credexAgent, owner>>
       /\ IF res = Ok
          THEN /\ usdc' = eff.usdc
               /\ agents' = eff.agents
               /\ globalTotalDebt' = eff.globalTotalDebt
               /\ totalLiquidity' = eff.totalLiquidity
          ELSE UNCHANGED <<agents, totalLiquidity, globalTotalDebt, usdc>>

freezeReason(sender, agent) ==
    IF ~onlyAgent(sender) THEN "Not Credex agent"
    ELSE IF ~agents[agent].active THEN "Not active"
    ELSE Ok

\* a freeze that freezes every account
freezeEveryAccount(sender, agent) ==
    LET res == freezeReason(sender, agent)
    IN /\ lastOp' = CalledBy(sender, "freeze", agent, 0, res)
       /\ Count(res)
       /\ UNCHANGED <<now, lpShares, totalShares, totalLiquidity, globalTotalDebt,
                      credexAgent, owner, usdc>>
       /\ IF res = Ok
          THEN agents' = [a \in AgentIds |-> [agents[a] EXCEPT !.frozen = TRUE]]
          ELSE UNCHANGED agents

freeze(sender, agent) ==
    LET res == freezeReason(sender, agent)
    IN /\ lastOp' = CalledBy(sender, "freeze", agent, 0, res)
       /\ Count(res)
       /\ UNCHANGED <<now, lpShares, totalShares, totalLiquidity, globalTotalDebt,
                      credexAgent, owner, usdc>>
       /\ IF res = Ok
          THEN agents' = [agents EXCEPT ![agent].frozen = TRUE]
          ELSE UNCHANGED agents

unfreezeReason(sender, agent) ==
    IF ~onlyAgent(sender) THEN "Not Credex agent"
    ELSE IF ~agents[agent].active THEN "Not active"
    ELSE Ok

unfreeze(sender, agent) ==
    LET res == unfreezeReason(sender, agent)
    IN /\ lastOp' = CalledBy(sender, "unfreeze", agent, 0, res)
       /\ Count(res)
       /\ UNCHANGED <<now, lpShares, totalShares, totalLiquidity, globalTotalDebt,
                      credexAgent, owner, usdc>>
       /\ IF res = Ok
          THEN agents' = [agents EXCEPT ![agent].frozen = FALSE]
          ELSE UNCHANGED agents

\* -------------------------------------------------------------------- admin
setAgent(sender, newAgent) ==
    LET res == IF onlyOwner(sender) THEN Ok ELSE "Not owner"
    IN /\ lastOp' = CalledBy(sender, "setAgent", newAgent, 0, res)
       /\ Count(res)
       /\ UNCHANGED <<now, agents, lpShares, totalShares, totalLiquidity,
                      globalTotalDebt, owner, usdc>>
       /\ credexAgent' = IF res = Ok THEN newAgent ELSE credexAgent

\* --------------------------------------------------------------------- time
\* block.timestamp moves forward between calls
warp(d) ==
    /\ now + d <= MaxTime
    /\ now' = now + d
    /\ lastOp' = Called("warp", Pool, d, Ok)
    /\ UNCHANGED <<poolVars, nCalls, reqs, calc>>

\* a unit repayment is offered while the account owes interest
repayChoices(agent) ==
    LET acc == _accrueInterest(agents[agent], now)
    IN RepayAmounts \cup (IF acc.debt > acc.principal THEN {1} ELSE {})

\* the runs explored make at most MaxCalls successful calls
Budget == nCalls < MaxCalls

\* LPs deposit and withdraw, the clearing operator drives the ledger, time passes
Next ==
    \/ \E p \in LPs : \E a \in DepositAmounts[p] : Budget /\ deposit(p, a) /\ UNCHANGED <<reqs, calc>>
    \/ \E p \in LPs : \E s \in WithdrawShares[p] \cup {lpShares[p]} : Budget /\ withdraw(p, s) /\ UNCHANGED <<reqs, calc>>
    \/ \E a \in AgentIds, l \in CreditLimits : Budget /\ onboardAgent(credexAgent, a, l) /\ UNCHANGED <<reqs, calc>>
    \/ \E a \in AgentIds, l \in CreditLimits : Budget /\ setCreditLimit(credexAgent, a, l) /\ UNCHANGED <<reqs, calc>>
    \/ \E a \in AgentIds, m \in BorrowAmounts : Budget /\ borrow(credexAgent, a, m) /\ UNCHANGED <<reqs, calc>>
    \/ \E a \in AgentIds : \E m \in repayChoices(a) : Budget /\ repay(credexAgent, a, m) /\ UNCHANGED <<reqs, calc>>
    \/ \E a \in AgentIds : Budget /\ freeze(credexAgent, a) /\ UNCHANGED <<reqs, calc>>
    \/ \E a \in AgentIds : Budget /\ unfreeze(credexAgent, a) /\ UNCHANGED <<reqs, calc>>
    \/ warp(WarpStep)

Spec == Init /\ [][Next]_vars

\* ------------------------------------------------- any caller, any function
\* the addresses that call the operator-only and owner-only functions
Senders == Operators \cup {Deployer}

AdminBudget == nCalls < MaxAdminCalls

\* one provider funds the pool; every address tries every ledger function on
\* one account and tries to replace the clearing operator
NextAdmin ==
    \/ AdminBudget /\ deposit("lp1", 2000) /\ UNCHANGED <<reqs, calc>>
    \/ \E s \in Senders : AdminBudget /\ onboardAgent(s, "agent1", 1000) /\ UNCHANGED <<reqs, calc>>
    \/ \E s \in Senders : AdminBudget /\ setCreditLimit(s, "agent1", 2000) /\ UNCHANGED <<reqs, calc>>
    \/ \E s \in Senders : AdminBudget /\ borrow(s, "agent1", 1000) /\ UNCHANGED <<reqs, calc>>
    \/ \E s \in Senders : AdminBudget /\ repay(s, "agent1", 500) /\ UNCHANGED <<reqs, calc>>
    \/ \E s \in Senders : AdminBudget /\ freeze(s, "agent1") /\ UNCHANGED <<reqs, calc>>
    \/ \E s \in Senders : AdminBudget /\ unfreeze(s, "agent1") /\ UNCHANGED <<reqs, calc>>
    \/ \E s \in Senders, n \in Operators : AdminBudget /\ setAgent(s, n) /\ UNCHANGED <<reqs, calc>>

SpecAdmin == Init /\ [][NextAdmin]_vars

\* ======================================================= reputation reader
\* ReputationReader: a score is the average of the feedback scores, kept as
\* the fraction sum / n; a repFactor is the number num / (den * 100), kept as
\* that fraction

\* the repFactor 1.0 of an identity nothing is known about
One == [num |-> 100, den |-> 1]
\* the bounds 0.1 and 3.0 of the clamp
MinFactor == [num |-> 10, den |-> 1]
MaxFactor == [num |-> 300, den |-> 1]

\* calculateReputationScore returns null
NoScore == [sum |-> 0, n |-> 0]

RECURSIVE sumScores(_)
sumScores(scores) ==
    IF scores = <<>> THEN 0 ELSE Head(scores) + sumScores(Tail(scores))

\* getAgentId: the handle the identity registry holds for an address, none
\* (0) when it holds none or the lookup fails
getAgentId(registry) == IF registry.ok /\ registry.id > 0 THEN registry.id ELSE 0

\* getFeedbackEntries: the events of the window; a failed query is caught
\* and answered with no events
getFeedbackEntries(feed) == IF feed.ok THEN feed.scores ELSE <<>>

\* a score that adds up the events but divides by one
calculateReputationScoreSum(feed) ==
    LET entries == getFeedbackEntries(feed)
    IN IF Len(entries) = 0 THEN NoScore
       ELSE [sum |-> sumScores(entries), n |-> 1]

calculateReputationScore(feed) ==
    LET entries == getFeedbackEntries(feed)
    IN IF Len(entries) = 0 THEN NoScore
       ELSE [sum |-> sumScores(entries), n |-> Len(entries)]

\* Math.max(0.1, Math.min(3.0, score / 100))
clampFactor(score) ==
    IF score.sum > MaxFactor.num * score.n THEN MaxFactor
    ELSE IF score.sum < MinFactor.num * score.n THEN MinFactor
    ELSE [num |-> score.sum, den |-> score.n]

\* a reader that lets the failure of the feed through: it answers 0
getRepFactorByAgentIdFailing(agentId, feed) ==
    IF agentId = 0 THEN One
    ELSE IF ~feed.ok THEN [num |-> 0, den |-> 1]
    ELSE LET score == calculateReputationScore(feed)
         IN IF score = NoScore THEN One ELSE clampFactor(score)

getRepFactorByAgentId(agentId, feed) ==
    IF agentId = 0 THEN One
    ELSE LET score == calculateReputationScore(feed)
         IN IF score = NoScore THEN One ELSE clampFactor(score)

getRepFactor(registry, feed) ==
    LET agentId == getAgentId(registry)
    IN IF agentId = 0 THEN One
       ELSE LET score == calculateReputationScore(feed)
            IN IF score = NoScore THEN One ELSE clampFactor(score)

\* ============================================================ orchestrator
\* CredexClearing: every request is an async handler; between two awaits of
\* one request the steps of the other requests and the clock may run.  A
\* step is one call to the ledger, a read or a transaction, and the handler
\* code up to its next call.

\* the wallet that signs the orchestrator's transactions
OrchSigner == "op1"

\* inputs of the requests: amounts in hundredths of a token, the agentId an
\* onboarding carries (0 when it carries none) and what the feed answers
OrchCents == {2, 3}
\* the identity the requests are about
OrchAgents == {"agent1"}
OrchHandles == {0, 7}
OrchFeeds == {[ok |-> FALSE, scores |-> <<>>], NoFeed,
              [ok |-> TRUE, scores |-> <<95, 96>>]}
\* the feed is asked about a handle other than 0 only
FeedsFor(handle) == IF handle = 0 THEN {NoFeed} ELSE OrchFeeds

\* ethers.parseUnits(amount, 6) of an amount written with two decimals
parseUnits(cents) == cents * 10000

\* PoolClient.getAgent: the account with the interest pending at the read
getAgentState(agent) ==
    LET acc == agents[agent]
        elapsed == now - acc.lastAccrued
        intervals == elapsed \div ACCRUAL_INTERVAL
        pendingInterest ==
            IF acc.lastAccrued > 0 /\ acc.debt > 0 /\ intervals > 0
            THEN (acc.debt * INTEREST_RATE_BP * intervals) \div 10000
            ELSE 0
    IN [acc EXCEPT !.debt = acc.debt + pendingInterest]

\* the averages v of scores for which the double (v / 100) * 100 is below v
FloatShort == {29, 57, 58, 113, 114, 115, 116, 201, 203, 205, 207, 226, 228,
               230, 232, 251, 253, 255}

\* Math.floor(repFactor * 100) in double arithmetic: the product falls short
\* of a whole number for the averages of FloatShort and is exact enough
\* everywhere else
floorTimes100(repFactor) ==
    LET whole == repFactor.num \div repFactor.den
    IN IF repFactor.num % repFactor.den = 0 /\ whole \in FloatShort
       THEN whole - 1 ELSE whole

calculateInitialLimit(repFactor) ==
    (INITIAL_LIMIT_BASE * floorTimes100(repFactor)) \div 100

\* grown > MAX_LIMIT, compared in whole tokens: MAX_LIMIT itself is beyond
\* the integers the model evaluates
aboveMaxLimit(grown) ==
    \/ grown \div 1000000 > 10000
    \/ grown \div 1000000 = 10000 /\ grown % 1000000 > 0

calculateGrowthLimit(currentLimit) ==
    LET grown == (currentLimit * GROWTH_FACTOR_BP) \div 100
    IN IF aboveMaxLimit(grown) THEN MAX_LIMIT ELSE grown

\* the handler returns its response and drops what it held
respond(req, success, message) ==
    [req EXCEPT !.pc = "done", !.success = success, !.message = message,
                !.seen = AgentAccount, !.limit = 0, !.prior = 0]

\* handleOnboard returns a failure: to the caller, or to ensureActiveAgent,
\* which throws it into the catch of the handler that called it
onboardFailed(req, message) ==
    IF req.auto THEN respond(req, FALSE, "Auto-onboarding failed: " \o message)
    ELSE respond(req, FALSE, message)

\* handleOnboard after its read of the ledger
onboardChecked(req, existing) ==
    IF existing.active THEN onboardFailed(req, "Agent already onboarded")
    ELSE [req EXCEPT !.pc = "onboardAgent",
                     !.limit = calculateInitialLimit(
                                   getRepFactorByAgentId(req.handle, req.feed))]

\* the handler after ensureActiveAgent returned agent
ensured(req, agent) ==
    IF req.kind = "status"
    THEN [respond(req, TRUE, "") EXCEPT !.available = agent.creditLimit - agent.debt]
    ELSE IF req.kind = "repay" THEN [req EXCEPT !.pc = "repay", !.seen = agent]
    ELSE IF agent.frozen THEN respond(req, FALSE, "Agent is frozen")
    ELSE IF req.amount > agent.creditLimit - agent.debt
         THEN respond(req, FALSE, "Insufficient credit")
    ELSE [req EXCEPT !.pc = "borrow", !.seen = agent]

\* ensureActiveAgent after its first read of the ledger
ensureChecked(req, agent) ==
    IF ~agent.active THEN [req EXCEPT !.pc = "handleOnboard", !.auto = TRUE]
    ELSE ensured(req, agent)

\* a request as the server hands it to its handler
Received(kind, agent, amount) ==
    [NoRequest EXCEPT !.kind = kind, !.agent = agent, !.amount = amount]

\* a read of the ledger: nothing but the request changes
reads(agent) ==
    /\ lastOp' = CalledBy(OrchSigner, "getAgentState", agent, 0, Ok)
    /\ UNCHANGED <<poolVars, now, nCalls, calc>>

\* a handler takes a request while no other occupies the slot
Free(r) == reqs[r].pc \in {"idle", "done"}

OrchBudget == nCalls < MaxOrchCalls

\* POST /onboard: handleOnboard up to its read of the ledger
handleOnboard(r, agent) ==
    /\ Free(r)
    /\ \E handle \in OrchHandles : \E feed \in FeedsFor(handle) :
          reqs' = [reqs EXCEPT ![r] =
                     onboardChecked([Received("onboard", agent, 0) EXCEPT
                                        !.handle = handle, !.feed = feed],
                                    getAgentState(agent))]
    /\ reads(agent)

\* GET /status, POST /borrow, POST /repay: the handler up to the first read
\* of ensureActiveAgent
getAgentStatus(r, agent) ==
    /\ Free(r)
    /\ reqs' = [reqs EXCEPT ![r] =
                  ensureChecked(Received("status", agent, 0), getAgentState(agent))]
    /\ reads(agent)

handleBorrow(r, agent, amount) ==
    /\ Free(r)
    /\ reqs' = [reqs EXCEPT ![r] =
                  ensureChecked(Received("borrow", agent, parseUnits(amount)),
                                getAgentState(agent))]
    /\ reads(agent)

handleRepay(r, agent, amount) ==
    /\ Free(r)
    /\ reqs' = [reqs EXCEPT ![r] =
                  ensureChecked(Received("repay", agent, parseUnits(amount)),
                                getAgentState(agent))]
    /\ reads(agent)

\* ensureActiveAgent calls handleOnboard with the agentId "0"; handleOnboard
\* reads the ledger
autoOnboard(r) ==
    /\ reqs[r].pc = "handleOnboard"
    /\ reqs' = [reqs EXCEPT ![r] = onboardChecked(@, getAgentState(reqs[r].agent))]
    /\ reads(reqs[r].agent)

\* handleOnboard submits onboardAgent and waits for the receipt; a revert is
\* thrown into its catch
submitOnboard(r) ==
    LET req == reqs[r]
        res == onboardAgentReason(OrchSigner, req.agent)
    IN /\ req.pc = "onboardAgent"
       /\ onboardAgent(OrchSigner, req.agent, req.limit)
       /\ UNCHANGED calc
       /\ reqs' = [reqs EXCEPT ![r] =
                     IF res # Ok THEN onboardFailed(req, res)
                     ELSE IF req.auto THEN [req EXCEPT !.pc = "refresh"]
                     ELSE respond(req, TRUE, "Agent onboarded successfully")]

\* what a read that follows a transaction can return: the account, or the
\* account as it was before it was onboarded when the node that answers has
\* not seen the block yet
readAfterWrite(agent) == {getAgentState(agent), AgentAccount}

\* ensureActiveAgent, its wait over, reads the ledger again and returns what
\* it read: the wait is a fixed delay
ensureRefresh(r) ==
    /\ reqs[r].pc = "refresh"
    /\ \E agent \in readAfterWrite(reqs[r].agent) :
          reqs' = [reqs EXCEPT ![r] = ensured(@, agent)]
    /\ reads(reqs[r].agent)

\* handleBorrow submits the borrow
submitBorrow(r) ==
    LET req == reqs[r]
        res == borrowReason(OrchSigner, req.agent, req.amount)
    IN /\ req.pc = "borrow"
       /\ borrow(OrchSigner, req.agent, req.amount)
       /\ UNCHANGED calc
       /\ reqs' = [reqs EXCEPT ![r] =
                     IF res # Ok THEN respond(req, FALSE, res)
                     ELSE respond(req, TRUE, "Borrowed")]

\* handleRepay submits the repayment and computes the grown limit from the
\* limit it read before
submitRepay(r) ==
    LET req == reqs[r]
        res == repayReason(OrchSigner, req.agent, req.amount)
        newLimit == calculateGrowthLimit(req.seen.creditLimit)
    IN /\ req.pc = "repay"
       /\ repay(OrchSigner, req.agent, req.amount)
       /\ UNCHANGED calc
       /\ reqs' = [reqs EXCEPT ![r] =
                     IF res # Ok THEN respond(req, FALSE, res)
                     ELSE IF newLimit > req.seen.creditLimit
                          THEN [req EXCEPT !.pc = "setCreditLimit", !.limit = newLimit,
                                           !.prior = agents[req.agent].creditLimit]
                     ELSE respond(req, TRUE, "Repaid")]

\* handleRepay submits the grown limit
submitLimit(r) ==
    LET req == reqs[r]
        res == setCreditLimitReason(OrchSigner, req.agent)
    IN /\ req.pc = "setCreditLimit"
       /\ setCreditLimit(OrchSigner, req.agent, req.limit)
       /\ UNCHANGED calc
       /\ reqs' = [reqs EXCEPT ![r] =
                     IF res # Ok THEN respond(req, FALSE, res)
                     ELSE respond(req, TRUE, "Repaid")]

\* the orchestrator starts on a pool lp1 has funded
InitOrch ==
    /\ reqs = [r \in Requests |-> NoRequest]
    /\ calc = NoCalc
    /\ agents = [a \in AgentIds |-> AgentAccount]
    /\ lpShares = [p \in LPs |-> IF p = "lp1" THEN OrchFunding ELSE 0]
    /\ totalShares = OrchFunding
    /\ totalLiquidity = OrchFunding
    /\ globalTotalDebt = 0
    /\ credexAgent = OrchSigner
    /\ owner = Deployer
    /\ usdc = [Minted EXCEPT ![Pool] = OrchFunding]
    /\ now = StartTime
    /\ lastOp = Called("deposit", "lp1", OrchFunding, Ok)
    /\ nCalls = 0

NextOrch ==
    \/ \E r \in Requests, a \in OrchAgents : OrchBudget /\ handleOnboard(r, a)
    \/ \E r \in Requests, a \in OrchAgents : OrchBudget /\ getAgentStatus(r, a)
    \/ \E r \in Requests, a \in OrchAgents, m \in OrchCents : OrchBudget /\ handleBorrow(r, a, m)
    \/ \E r \in Requests, a \in OrchAgents, m \in OrchCents : OrchBudget /\ handleRepay(r, a, m)
    \/ \E r \in Requests : autoOnboard(r)
    \/ \E r \in Requests : submitOnboard(r)
    \/ \E r \in Requests : ensureRefresh(r)
    \/ \E r \in Requests : submitBorrow(r)
    \/ \E r \in Requests : submitRepay(r)
    \/ \E r \in Requests : submitLimit(r)
    \/ warp(WarpStep)

SpecOrch == InitOrch /\ [][NextOrch]_vars

\* --------------------------------------------- longer runs of borrow and repay
\* the orchestrator serving repayments and borrows only, of one amount each,
\* the clock standing still, for runs of more ledger calls
MaxGrowthCalls == 6
RepayCents == 2
BorrowCents == 6

GrowthBudget == nCalls < MaxGrowthCalls

NextGrowth ==
    \/ \E r \in Requests, a \in OrchAgents : GrowthBudget /\ handleBorrow(r, a, BorrowCents)
    \/ \E r \in Requests, a \in OrchAgents : GrowthBudget /\ handleRepay(r, a, RepayCents)
    \/ \E r \in Requests : autoOnboard(r)
    \/ \E r \in Requests : submitOnboard(r)
    \/ \E r \in Requests : ensureRefresh(r)
    \/ \E r \in Requests : submitBorrow(r)
    \/ \E r \in Requests : submitRepay(r)
    \/ \E r \in Requests : submitLimit(r)

SpecGrowth == InitOrch /\ [][NextGrowth]_vars

\* ======================================================= the limit policy alone
\* handleRepay's growth of the limit up to MAX_LIMIT, with the ledger reduced
\* to the creditLimit of one account.  Amounts are uint256 in the code; up
\* here they are kept as whole tokens and millionths, [hi, lo] standing for
\* hi * 1000000 + lo.

Millionths == 1000000

\* MAX_LIMIT = 10_000n * 1_000_000n
MAX_LIMIT_WIDE == [hi |-> 10000, lo |-> 0]

wide(amount) == [hi |-> amount \div Millionths, lo |-> amount % Millionths]

greaterWide(a, b) == a.hi > b.hi \/ (a.hi = b.hi /\ a.lo > b.lo)

\* (currentLimit * GROWTH_FACTOR_BP) / 100n
grownWide(currentLimit) ==
    LET tokens == currentLimit.hi * GROWTH_FACTOR_BP
        parts == (tokens % 100) * (Millionths \div 100)
                     + (currentLimit.lo * GROWTH_FACTOR_BP) \div 100
    IN [hi |-> tokens \div 100 + parts \div Millionths, lo |-> parts % Millionths]

\* calculateGrowthLimit on amounts of any size
calculateGrowthLimitWide(currentLimit) ==
    LET grown == grownWide(currentLimit)
    IN IF greaterWide(grown, MAX_LIMIT_WIDE) THEN MAX_LIMIT_WIDE ELSE grown

\* a handler holds no account
NoLimit == [hi |-> 0 - 1, lo |-> 0]

\* an account onboarded with the limit of factor 1.0, no repayment under way
InitLimit ==
    /\ calc = [op |-> "handleRepay",
               creditLimit |-> wide(calculateInitialLimit(One)),
               held |-> [r \in Requests |-> NoLimit]]
    /\ reqs = [r \in Requests |-> NoRequest]
    /\ agents = [a \in AgentIds |-> AgentAccount]
    /\ lpShares = [p \in LPs |-> 0]
    /\ totalShares = 0
    /\ totalLiquidity = 0
    /\ globalTotalDebt = 0
    /\ credexAgent = OrchSigner
    /\ owner = Deployer
    /\ usdc = Minted
    /\ now = StartTime
    /\ lastOp = Called("constructor", Deployer, 0, Ok)
    /\ nCalls = 0

\* handleRepay's ensureActiveAgent reads the account
readLimit(r) ==
    /\ calc.held[r] = NoLimit
    /\ calc' = [calc EXCEPT !.held[r] = calc.creditLimit]
    /\ UNCHANGED <<poolVars, now, lastOp, nCalls, reqs>>

\* handleRepay, its repayment mined, grows the limit it read and submits it
\* if it is greater than the one it read
growLimit(r) ==
    /\ calc.held[r] # NoLimit
    /\ LET newLimit == calculateGrowthLimitWide(calc.held[r])
       IN calc' = [calc EXCEPT !.held[r] = NoLimit,
                               !.creditLimit = IF greaterWide(newLimit, calc.held[r])
                                               THEN newLimit ELSE @]
    /\ UNCHANGED <<poolVars, now, lastOp, nCalls, reqs>>

NextLimit ==
    \/ \E r \in Requests : readLimit(r)
    \/ \E r \in Requests : growLimit(r)

SpecLimit == InitLimit /\ [][NextLimit]_vars

\* ================================================ the reputation reader alone
\* getRepFactor and getRepFactorByAgentId applied, once, to what the identity
\* registry and the feedback feed can answer

\* the most feedback events a window holds
MaxEvents == 3
\* the scores of the events
Scores == {0, 9, 29, 95, 96, 100}
Histories == UNION {[1..n -> Scores] : n \in 0..MaxEvents}
\* the answers of the feed: a history of scores, or a failure
Feeds == {[ok |-> TRUE, scores |-> h] : h \in Histories}
            \cup {[ok |-> FALSE, scores |-> <<>>]}
\* the answers of the identity registry: a failure, no handle, a handle
Registries == {[ok |-> FALSE, id |-> 0], [ok |-> TRUE, id |-> 0], [ok |-> TRUE, id |-> 7]}

\* a function of the reader applied: its arguments and the factor returned
Applied(op, agentId, feed, factor) ==
    [op |-> op, agentId |-> agentId, feed |-> feed, factor |-> factor]

readByAgentId(agentId, feed) ==
    /\ calc = NoCalc
    /\ calc' = Applied("getRepFactorByAgentId", agentId, feed,
                       getRepFactorByAgentId(agentId, feed))
    /\ UNCHANGED <<poolVars, now, lastOp, nCalls, reqs>>

readByAddress(registry, feed) ==
    /\ calc = NoCalc
    /\ calc' = Applied("getRepFactor", getAgentId(registry), feed,
                       getRepFactor(registry, feed))
    /\ UNCHANGED <<poolVars, now, lastOp, nCalls, reqs>>

\* the inputs of the local scoring: jobs completed and failed, the age of the
\* account in days, the slashes counted
Completed == {0, 9, 19, 89, 90, 94, 95, 98, 99, 100}
Failed == {0, 1, 5, 10}
AgeDays == {0, 89, 90, 179, 180}
SlashCounts == {0, 1, 3, 4, 5}
ReputationInputs ==
    [totalCompleted : Completed, totalFailed : Failed,
     accountAgeDays : AgeDays, slashCount : SlashCounts]

\* Math.min(a, b)
Min(a, b) == IF a < b THEN a ELSE b

\* the breakdown of calculateRepFactor, in hundredths, its penalty not capped
breakdownOfUncapped(inputs) ==
    LET totalJobs == inputs.totalCompleted + inputs.totalFailed
    IN [base |-> 100,
        completionBonus |->
            IF totalJobs > 0
            THEN IF inputs.totalCompleted * 100 >= 99 * totalJobs THEN 100
                 ELSE IF inputs.totalCompleted * 100 >= 95 * totalJobs THEN 50
                 ELSE IF inputs.totalCompleted * 100 >= 90 * totalJobs THEN 25
                 ELSE 0
            ELSE 0,
        ageBonus |-> IF inputs.accountAgeDays >= 180 THEN 50
                     ELSE IF inputs.accountAgeDays >= 90 THEN 25 ELSE 0,
        slashPenalty |-> inputs.slashCount * 25]

\* the breakdown of calculateRepFactor, in hundredths: every figure of it is
\* a multiple of 0.25, which doubles hold exactly
breakdownOf(inputs) ==
    LET totalJobs == inputs.totalCompleted + inputs.totalFailed
    IN [base |-> 100,
        completionBonus |->
            IF totalJobs > 0
            THEN IF inputs.totalCompleted * 100 >= 99 * totalJobs THEN 100
                 ELSE IF inputs.totalCompleted * 100 >= 95 * totalJobs THEN 50
                 ELSE IF inputs.totalCompleted * 100 >= 90 * totalJobs THEN 25
                 ELSE 0
            ELSE 0,
        ageBonus |-> IF inputs.accountAgeDays >= 180 THEN 50
                     ELSE IF inputs.accountAgeDays >= 90 THEN 25 ELSE 0,
        slashPenalty |-> Min(inputs.slashCount * 25, 100)]

\* calculateRepFactor: the factor, in hundredths, and its breakdown
calculateRepFactor(inputs) ==
    LET breakdown == breakdownOf(inputs)
        factor == breakdown.base + breakdown.completionBonus
                    + breakdown.ageBonus - breakdown.slashPenalty
    IN [factor |-> IF factor > 300 THEN 300 ELSE IF factor < 10 THEN 10 ELSE factor,
        breakdown |-> breakdown]

scoreLocally(inputs) ==
    /\ calc = NoCalc
    /\ calc' = [op |-> "calculateRepFactor", inputs |-> inputs,
                result |-> calculateRepFactor(inputs)]
    /\ UNCHANGED <<poolVars, now, lastOp, nCalls, reqs>>

NextRep ==
    \/ \E agentId \in OrchHandles, feed \in Feeds : readByAgentId(agentId, feed)
    \/ \E registry \in Registries, feed \in Feeds : readByAddress(registry, feed)
    \/ \E inputs \in ReputationInputs : scoreLocally(inputs)

SpecRep == Init /\ [][NextRep]_vars

\* ================================================================ properties
RECURSIVE SumOver(_, _)
SumOver(f, S) ==
    IF S = {} THEN 0
    ELSE LET x == CHOOSE y \in S : TRUE
         IN f[x] + SumOver(f, S \ {x})

SumOfDebts == SumOver([a \in AgentIds |-> agents[a].debt], AgentIds)

SumOfShares == SumOver(lpShares, LPs)

\* the call the last step made
Did(op) == lastOp.op = op /\ lastOp.res = Ok

\* interest an agent has paid so far: what it was given less what it holds and owes as principal
InterestPaid(a) == Minted[a] + agents[a].principal - usdc[a]

\* C1: in every reachable state the aggregate debt tracker equals the sum of
\* the stored debts of all agent accounts, so totalAssets() is totalLiquidity
\* plus the sum of the account debts.
C1_TrackerIsSumOfDebts ==
    /\ globalTotalDebt = SumOfDebts
    /\ totalAssets = totalLiquidity + SumOfDebts

\* both agents owe, one of them interest, after a repayment
C1_Witness ==
    /\ Did("repay")
    /\ \A a \in AgentIds : agents[a].debt > 0
    /\ \E a \in AgentIds : agents[a].debt > agents[a].principal

\* C2: in every reachable state the shares of all providers add up to
\* totalShares.
C2_SharesAddUp == SumOfShares = totalShares

\* both providers hold shares after one of them withdrew some
C2_Witness ==
    /\ Did("withdraw")
    /\ \A p \in LPs : lpShares[p] > 0

\* C3: in every reachable state every agent account has debt >= principal.
C3_DebtCoversPrincipal == \A a \in AgentIds : agents[a].debt >= agents[a].principal

\* an account that owed interest has repaid part of its principal
C3_Witness ==
    /\ Did("repay")
    /\ \E a \in AgentIds :
          /\ lastOp.who = a
          /\ InterestPaid(a) > 0
          /\ lastOp.amount > InterestPaid(a)
          /\ agents[a].principal > 0

\* whole accrual intervals between an account's watermark and time t
IntervalsSince(acc, t) == (t - acc.lastAccrued) \div ACCRUAL_INTERVAL

\* simple interest on the stored debt for the whole intervals up to time t
InterestDue(acc, t) ==
    (acc.debt * INTEREST_RATE_BP * IntervalsSince(acc, t)) \div 10000

\* the outcome of a borrow as the ledger contract words it
BorrowDecision(a, amount) ==
    IF ~agents[a].active THEN "Not active"
    ELSE IF agents[a].frozen THEN "Account frozen"
    ELSE IF agents[a].principal + amount > agents[a].creditLimit THEN "Exceeds limit"
    ELSE IF amount > totalLiquidity THEN "Insufficient liquidity"
    ELSE Ok

\* C4: a borrow made by the clearing operator succeeds exactly when the
\* account is active, not frozen, principal + amount <= creditLimit and
\* amount <= totalLiquidity, and otherwise fails with the first reason that
\* applies, in the order NotActive, Frozen, ExceedsLimit,
\* InsufficientLiquidity.  With principal = 0 and creditLimit = L a borrow of
\* L + 1 fails with ExceedsLimit and a borrow of L the pool can fund succeeds.
C4_BorrowDecision ==
    [][lastOp'.op = "borrow" =>
         LET a == lastOp'.who
             m == lastOp'.amount
         IN /\ lastOp'.res = BorrowDecision(a, m)
            /\ (agents[a].active /\ ~agents[a].frozen /\ agents[a].principal = 0) =>
                  /\ (m = agents[a].creditLimit + 1 => lastOp'.res = "Exceeds limit")
                  /\ (m = agents[a].creditLimit /\ m <= totalLiquidity => lastOp'.res = Ok)
      ]_vars

\* a borrow of L + 1 on a fresh account of limit L the pool could fund was refused
C4_Witness ==
    /\ lastOp.op = "borrow"
    /\ lastOp.res = "Exceeds limit"
    /\ agents[lastOp.who].principal = 0
    /\ lastOp.amount = agents[lastOp.who].creditLimit + 1
    /\ lastOp.amount <= totalLiquidity

\* C5: a successful borrow of amount adds amount to the account's principal,
\* and amount on top of the interest accrued in the call to its debt and to
\* the aggregate debt; it takes amount from totalLiquidity and moves amount
\* tokens from the pool to the agent, in one step; totalAssets changes by the
\* accrued interest only.
C5_BorrowEffect ==
    [][(lastOp'.op = "borrow" /\ lastOp'.res = Ok) =>
         LET a == lastOp'.who
             m == lastOp'.amount
             i == InterestDue(agents[a], now)
         IN /\ agents'[a].principal = agents[a].principal + m
            /\ agents'[a].debt = agents[a].debt + i + m
            /\ globalTotalDebt' = globalTotalDebt + i + m
            /\ totalLiquidity' = totalLiquidity - m
            /\ usdc'[a] = usdc[a] + m
            /\ usdc'[Pool] = usdc[Pool] - m
            /\ totalAssets' = totalAssets + i
      ]_vars

\* a second borrow landed on an account that owes interest
C5_Witness ==
    /\ Did("borrow")
    /\ agents[lastOp.who].principal > lastOp.amount
    /\ agents[lastOp.who].debt > agents[lastOp.who].principal

\* C6: a repayment pays interest first.  With interestOwed = debt - principal
\* after accrual and amount the sum pulled, amount <= interestOwed takes
\* amount off the debt and leaves the principal; amount > interestOwed takes
\* amount off the debt and amount - interestOwed off the principal.  Either
\* way totalLiquidity gains amount, the aggregate debt loses amount and
\* lastRepayment becomes the current time.
C6_InterestFirst ==
    [][(lastOp'.op = "repay" /\ lastOp'.res = Ok) =>
         LET a == lastOp'.who
             i == InterestDue(agents[a], now)
             debt == agents[a].debt + i
             interestOwed == debt - agents[a].principal
             amount == IF lastOp'.amount > debt THEN debt ELSE lastOp'.amount
         IN /\ agents'[a].debt = debt - amount
            /\ amount <= interestOwed => agents'[a].principal = agents[a].principal
            /\ amount > interestOwed =>
                  agents'[a].principal = agents[a].principal - (amount - interestOwed)
            /\ totalLiquidity' = totalLiquidity + amount
            /\ globalTotalDebt' = globalTotalDebt + i - amount
            /\ agents'[a].lastRepayment = now
      ]_vars

\* a repayment that covered interest only: the agent still owes all it borrowed
C6_Witness ==
    /\ Did("repay")
    /\ InterestPaid(lastOp.who) = lastOp.amount
    /\ lastOp.amount > 0
    /\ agents[lastOp.who].lastRepayment = now
    /\ agents[lastOp.who].principal > 0

\* the debt of an account once the interest due at the current time is added
DebtDue(a) == agents[a].debt + InterestDue(agents[a], now)

C8_AccrualAmount ==
    /\ _accrueInterest([AgentAccount EXCEPT !.debt = 50000000, !.lastAccrued = StartTime,
                                            !.active = TRUE],
                       StartTime + ACCRUAL_INTERVAL).debt = 50000000 + 50000
    /\ [][(lastOp'.op \in {"borrow", "repay"} /\ lastOp'.res = Ok) =>
            LET a == lastOp'.who
                n == IntervalsSince(agents[a], now)
                moved == IF lastOp'.op = "borrow" THEN lastOp'.amount
                         ELSE usdc[Pool] - usdc'[Pool]
                accrued == agents'[a].debt - agents[a].debt - moved
            IN /\ accrued = (agents[a].debt * INTEREST_RATE_BP * n) \div 10000
               /\ n = 0 => /\ accrued = 0
                           /\ agents'[a].lastAccrued = agents[a].lastAccrued
         ]_vars

\* an account accrued over more than one interval in a single call
C8_Witness ==
    /\ lastOp.op \in {"borrow", "repay"}
    /\ lastOp.res = Ok
    /\ agents[lastOp.who].debt + InterestPaid(lastOp.who) >= agents[lastOp.who].principal + 2
    /\ agents[lastOp.who].lastRepayment = StartTime

\* C9 as worded: whenever the accrual of a borrow or repay runs with at least
\* one whole interval elapsed, lastAccrued advances by intervals *
\* ACCRUAL_INTERVAL, so that afterwards now - lastAccrued < ACCRUAL_INTERVAL.
C9_WatermarkAdvances ==
    [][(lastOp'.op \in {"borrow", "repay"} /\ lastOp'.res = Ok
          /\ IntervalsSince(agents[lastOp'.who], now) >= 1) =>
         LET a == lastOp'.who
             n == IntervalsSince(agents[a], now)
         IN /\ agents'[a].lastAccrued = agents[a].lastAccrued + n * ACCRUAL_INTERVAL
            /\ now - agents'[a].lastAccrued < ACCRUAL_INTERVAL
      ]_vars

\* C10: a deposit into a pool without shares mints amount shares; otherwise
\* it mints floor(amount * totalShares / totalAssets) from the totals before
\* the deposit (totalShares 100, totalAssets 200, deposit 50: 25 shares).  The
\* shares go to the caller's position and to totalShares, and totalLiquidity
\* gains amount.
C10_DepositMints ==
    /\ sharesFor(50, 100, 200) = 25
    /\ [][(lastOp'.op = "deposit" /\ lastOp'.res = Ok) =>
            LET p == lastOp'.who
                m == lastOp'.amount
                minted == IF totalShares = 0 THEN m
                          ELSE (m * totalShares) \div totalAssets
            IN /\ lpShares'[p] = lpShares[p] + minted
               /\ \A q \in LPs \ {p} : lpShares'[q] = lpShares[q]
               /\ totalShares' = totalShares + minted
               /\ totalLiquidity' = totalLiquidity + m
         ]_vars

\* a lot deposited after interest had raised the share price minted fewer shares
C10_Witness ==
    /\ Did("deposit")
    /\ lastOp.who = "lp1"
    /\ lpShares["lp1"] % 1000 # 0

\* C11: a withdrawal of shares by a provider holding at least shares releases
\* assets = floor(shares * totalAssets / totalShares); it fails with
\* "Insufficient pool liquidity" whenever assets > totalLiquidity, although
\* the provider's shares suffice; when it succeeds totalShares and the
\* caller's position lose shares, totalLiquidity loses assets and the caller
\* receives assets.
C11_WithdrawReleases ==
    [][(lastOp'.op = "withdraw" /\ lastOp'.amount > 0
          /\ lpShares[lastOp'.who] >= lastOp'.amount) =>
         LET p == lastOp'.who
             shares == lastOp'.amount
             assets == (shares * totalAssets) \div totalShares
         IN /\ lastOp'.res = IF assets > totalLiquidity
                             THEN "Insufficient pool liquidity" ELSE Ok
            /\ lastOp'.res = Ok =>
                  /\ totalShares' = totalShares - shares
                  /\ lpShares'[p] = lpShares[p] - shares
                  /\ \A q \in LPs \ {p} : lpShares'[q] = lpShares[q]
                  /\ totalLiquidity' = totalLiquidity - assets
                  /\ usdc'[p] = usdc[p] + assets
                  /\ usdc'[Pool] = usdc[Pool] - assets
      ]_vars

\* a provider holding the shares was refused because the funds are lent out
C11_Witness ==
    /\ lastOp.op = "withdraw"
    /\ lastOp.res = "Insufficient pool liquidity"
    /\ lastOp.amount > 0
    /\ lpShares[lastOp.who] >= lastOp.amount
    /\ globalTotalDebt > 0

\* the shares a deposit of amount minted, read off the totals it left behind
MintedBy(amount, s) ==
    /\ s \in 0..totalShares
    /\ amount <= totalAssets
    /\ s = IF totalShares - s = 0 THEN amount
           ELSE IF totalAssets - amount = 0 THEN -1
           ELSE (amount * (totalShares - s)) \div (totalAssets - amount)

\* C12: rounding never lets a provider extract value.  The shares a deposit
\* of amount mints are worth at most amount at the totals the deposit leaves,
\* and a withdrawal of exactly those shares that follows the deposit at once
\* releases at most amount; this holds at every deposit of a run, so for any
\* number of round trips.
C12_RoundTripNoGain ==
    /\ [][(lastOp'.op = "deposit" /\ lastOp'.res = Ok) =>
            LET p == lastOp'.who
                minted == lpShares'[p] - lpShares[p]
            IN (minted * (totalLiquidity' + globalTotalDebt')) \div totalShares'
                  <= lastOp'.amount
         ]_vars
    /\ [][(/\ lastOp.op = "deposit" /\ lastOp.res = Ok
           /\ lastOp'.op = "withdraw" /\ lastOp'.res = Ok
           /\ lastOp'.who = lastOp.who
           /\ MintedBy(lastOp.amount, lastOp'.amount)) =>
            usdc'[lastOp.who] - usdc[lastOp.who] <= lastOp.amount
         ]_vars

\* a provider that paid 2 for one share while the pool earned interest has
\* withdrawn it and holds less than it started with
C12_Witness ==
    /\ Did("withdraw")
    /\ lastOp.who = "lp2"
    /\ lpShares["lp2"] = 0
    /\ usdc["lp2"] < MintLP2
    /\ \E a \in AgentIds : agents[a].debt > agents[a].principal

\* C13: in every reachable state totalAssets, the cash plus the aggregate
\* debt, is zero exactly when totalShares is zero.
C13_AssetsIffShares == (totalAssets = 0) <=> (totalShares = 0)

\* the last shares were withdrawn from a pool that had earned interest
C13_Witness ==
    /\ Did("withdraw")
    /\ totalShares = 0
    /\ totalAssets = 0
    /\ usdc["lp1"] > MintLP1

\* C14: onboarding an identity that is not active, by the clearing operator,
\* creates the account with debt = principal = 0, frozen = false, active =
\* true, the given creditLimit and both watermarks at the current time;
\* onboarding an active identity fails with "Already onboarded" and leaves
\* its debt, principal, creditLimit and frozen flag as they were.
C14_Onboard ==
    [][lastOp'.op = "onboardAgent" =>
         LET a == lastOp'.who
         IN IF ~agents[a].active
            THEN /\ lastOp'.res = Ok
                 /\ agents'[a] = [debt |-> 0, principal |-> 0,
                                  creditLimit |-> lastOp'.amount,
                                  lastAccrued |-> now, lastRepayment |-> now,
                                  frozen |-> FALSE, active |-> TRUE]
            ELSE /\ lastOp'.res = "Already onboarded"
                 /\ agents'[a].debt = agents[a].debt
                 /\ agents'[a].principal = agents[a].principal
                 /\ agents'[a].creditLimit = agents[a].creditLimit
                 /\ agents'[a].frozen = agents[a].frozen
                 /\ agents'[a].active
      ]_vars

\* a second onboarding with another limit was refused on an account in debt
C14_Witness ==
    /\ lastOp.op = "onboardAgent"
    /\ lastOp.res = "Already onboarded"
    /\ agents[lastOp.who].debt > 0
    /\ agents[lastOp.who].creditLimit # lastOp.amount
    /\ agents[lastOp.who].lastAccrued = StartTime
    /\ now > StartTime

\* C15: while an account is frozen every borrow on it fails with "Account
\* frozen", but a repayment the agent can fund still succeeds and takes the
\* amount pulled off the debt; a borrow that follows an unfreeze is decided
\* as on an account never frozen.  freeze and unfreeze set the flag of an
\* active account and fail with "Not active" on an identity that is not.
C15_FrozenBlocksBorrowOnly ==
    /\ [][(lastOp'.op = "borrow" /\ agents[lastOp'.who].active
              /\ agents[lastOp'.who].frozen) =>
            /\ lastOp'.res = "Account frozen"
            /\ agents' = agents
         ]_vars
    /\ [][(lastOp'.op = "repay" /\ agents[lastOp'.who].active
              /\ agents[lastOp'.who].frozen) =>
            LET a == lastOp'.who
                pulled == IF lastOp'.amount > DebtDue(a) THEN DebtDue(a)
                          ELSE lastOp'.amount
            IN /\ lastOp'.res = IF usdc[a] >= pulled THEN Ok ELSE TokenReason
               /\ lastOp'.res = Ok =>
                     /\ agents'[a].debt = DebtDue(a) - pulled
                     /\ agents'[a].frozen
         ]_vars
    /\ [][(/\ lastOp.op = "unfreeze" /\ lastOp.res = Ok
           /\ lastOp'.op = "borrow" /\ lastOp'.who = lastOp.who) =>
            /\ ~agents[lastOp.who].frozen
            /\ lastOp'.res = BorrowDecision(lastOp'.who, lastOp'.amount)
            /\ lastOp'.res # "Account frozen"
         ]_vars
    /\ [][lastOp'.op \in {"freeze", "unfreeze"} =>
            LET a == lastOp'.who
            IN IF agents[a].active
               THEN /\ lastOp'.res = Ok
                    /\ agents' = [agents EXCEPT ![a].frozen = (lastOp'.op = "freeze")]
               ELSE /\ lastOp'.res = "Not active"
                    /\ agents' = agents
         ]_vars

\* a frozen account in debt made a partial repayment and still owes
C15_Witness ==
    /\ Did("repay")
    /\ agents[lastOp.who].frozen
    /\ agents[lastOp.who].debt > 0
    /\ lastOp.amount = 500
    /\ agents[lastOp.who].principal < agents[lastOp.who].creditLimit
    /\ agents[lastOp.who].lastRepayment = now

\* C16: an account goes Uninitialized -> Active -> {Frozen <-> Active}.  It
\* becomes active through onboardAgent only, no step makes an active account
\* inactive, its frozen flag changes through a successful freeze or unfreeze
\* of that account only, and only an active account is ever frozen.
C16_Lifecycle ==
    /\ \A a \in AgentIds : agents[a].frozen => agents[a].active
    /\ [][\A a \in AgentIds :
            /\ agents[a].active => agents'[a].active
            /\ (~agents[a].active /\ agents'[a].active) =>
                  lastOp' = CalledBy(credexAgent, "onboardAgent", a, agents'[a].creditLimit, Ok)
            /\ (~agents[a].frozen /\ agents'[a].frozen) =>
                  lastOp' = CalledBy(credexAgent, "freeze", a, 0, Ok)
            /\ (agents[a].frozen /\ ~agents'[a].frozen) =>
                  lastOp' = CalledBy(credexAgent, "unfreeze", a, 0, Ok)
         ]_vars

\* an account that owes interest went from Active to Frozen
C16_Witness ==
    /\ Did("freeze")
    /\ agents[lastOp.who].frozen
    /\ agents[lastOp.who].active
    /\ agents[lastOp.who].debt > agents[lastOp.who].principal
    /\ \E a \in AgentIds : agents[a].active /\ ~agents[a].frozen

\* the functions behind the onlyAgent modifier
OperatorOnly ==
    {"onboardAgent", "setCreditLimit", "borrow", "repay", "freeze", "unfreeze"}

\* C17: onboardAgent, setCreditLimit, borrow, repay, freeze and unfreeze
\* called by anyone but the current clearing operator are rejected with "Not
\* Credex agent" and change nothing, and the current operator is never
\* rejected for who it is; setAgent called by anyone but the owner is
\* rejected with "Not owner" and changes nothing, and called by the owner it
\* names the new operator, after which the previous one is rejected.
C17_Authorization ==
    /\ [][lastOp'.op \in OperatorOnly =>
            IF lastOp'.by # credexAgent
            THEN lastOp'.res = "Not Credex agent" /\ UNCHANGED poolVars
            ELSE lastOp'.res # "Not Credex agent"
         ]_vars
    /\ [][lastOp'.op = "setAgent" =>
            IF lastOp'.by # owner
            THEN lastOp'.res = "Not owner" /\ UNCHANGED poolVars
            ELSE /\ lastOp'.res = Ok
                 /\ credexAgent' = lastOp'.who
                 /\ owner' = owner
         ]_vars
    /\ [][(lastOp.op = "setAgent" /\ lastOp.res = Ok /\ lastOp'.op \in OperatorOnly) =>
            (lastOp'.res = "Not Credex agent") <=> (lastOp'.by # lastOp.who)
         ]_vars

\* the operator of the deployment was replaced and its borrow on a funded,
\* onboarded account is rejected
C17_Witness ==
    /\ lastOp.op = "borrow"
    /\ lastOp.by = "op1"
    /\ lastOp.res = "Not Credex agent"
    /\ credexAgent = "op2"
    /\ agents[lastOp.who].active
    /\ totalLiquidity >= lastOp.amount

\* the reasons a call to the vault or the ledger is refused for
Refusals ==
    {"Zero amount", "Zero shares", "Insufficient shares",
     "Insufficient pool liquidity", "Not active", "Account frozen",
     "Exceeds limit", "Insufficient liquidity", "Already onboarded"}

\* C18: a call that fails, whatever the reason (zero deposit or withdraw
\* amount, insufficient shares, insufficient liquidity, not active, frozen,
\* exceeds limit, already onboarded), leaves the pool totals, the LP
\* positions, the token balances and every account field as they were, debt
\* and lastAccrued included: the interest a failing borrow accrued before its
\* failing require is not committed.
C18_FailureChangesNothing ==
    /\ [][lastOp'.res # Ok =>
            /\ UNCHANGED poolVars
            /\ UNCHANGED now
         ]_vars
    /\ [][(lastOp'.op = "borrow" /\ lastOp'.res \in Refusals) =>
            LET a == lastOp'.who
            IN /\ agents'[a].debt = agents[a].debt
               /\ agents'[a].lastAccrued = agents[a].lastAccrued
               /\ globalTotalDebt' = globalTotalDebt
         ]_vars

\* a borrow over the limit was refused on an account with an interval of
\* interest still to accrue
C18_Witness ==
    /\ lastOp.op = "borrow"
    /\ lastOp.res = "Exceeds limit"
    /\ InterestDue(agents[lastOp.who], now) > 0
    /\ agents[lastOp.who].debt = agents[lastOp.who].principal
    /\ agents[lastOp.who].lastAccrued = StartTime

\* C19 as worded: handleOnboard on an identity the ledger reports as active
\* answers with success, the existing state as information, and submits no
\* ledger write.
C19_AlreadyOnboardedIsSuccess ==
    [][\A r \in Requests :
          (/\ Free(r) /\ reqs'[r] # reqs[r]
           /\ reqs'[r].kind = "onboard"
           /\ agents[reqs'[r].agent].active) =>
             /\ reqs'[r].pc = "done"
             /\ reqs'[r].success
             /\ UNCHANGED poolVars
      ]_vars

\* the answers of a request that found the identity inactive at its first
\* read and onboarded by another request before its own onboarding landed
LostTheRace ==
    {"Auto-onboarding failed: Agent already onboarded",
     "Auto-onboarding failed: Already onboarded",
     "Already onboarded"}

\* C20 as worded: of two requests that run concurrently on an identity not
\* yet onboarded, neither fails because the other one onboarded it first.
C20_NoRequestLosesTheRace ==
    \A r \in Requests :
        (reqs[r].pc = "done" /\ reqs[r].message \in LostTheRace) => reqs[r].success

\* C21: an account that ensureActiveAgent read as inactive after the
\* auto-onboarding and the wait is never handed on: no handler stands at the
\* submission of a borrow or a repayment holding an account it read inactive.
C21_NoSubmitOnInactive ==
    \A r \in Requests :
        reqs[r].pc \in {"borrow", "repay"} => reqs[r].seen.active

\* a handler has submitted a ledger operation and waits for its receipt
InFlight(r) == reqs[r].pc \in {"borrow", "repay", "setCreditLimit"}

\* C22: requests on one identity are serialized: no two handlers have a
\* ledger operation for the same identity in flight at the same time.
C22_OneOperationPerIdentity ==
    \A r1, r2 \in Requests :
        (r1 # r2 /\ InFlight(r1) /\ InFlight(r2)) => reqs[r1].agent # reqs[r2].agent

\* C23: a handleRepay that succeeds leaves creditLimit at
\* min(floor(previousLimit * 1.10), MAX_LIMIT), previousLimit being the
\* ledger's limit before the repayment, and calls setCreditLimit only with a
\* value strictly greater than previousLimit.
C23_RepayGrowsLimit ==
    [][\A r \in Requests :
          (/\ reqs[r].pc \in {"repay", "setCreditLimit"}
           /\ reqs'[r].pc = "done" /\ reqs'[r].success) =>
             LET a == reqs[r].agent
                 previousLimit == IF reqs[r].pc = "repay"
                                  THEN agents[a].creditLimit ELSE reqs[r].prior
             IN /\ agents'[a].creditLimit = calculateGrowthLimit(previousLimit)
                /\ reqs[r].pc = "setCreditLimit" => reqs[r].limit > previousLimit]_vars

\* C25: across every sequence and interleaving of orchestrator requests the
\* ledger's creditLimit of an identity never decreases.
C25_LimitNeverDecreases ==
    [][\A a \in AgentIds : agents'[a].creditLimit >= agents[a].creditLimit]_vars

\* floor(INITIAL_LIMIT_BASE * repFactor) of the factor num / (den * 100)
flooredLimit(repFactor) ==
    (INITIAL_LIMIT_BASE * repFactor.num) \div (repFactor.den * 100)

\* C26: handleOnboard on an inactive identity onboards it with the limit
\* floor(BASE_LIMIT * factor), factor being what the reputation reader
\* returned, so with a limit in [floor(0.1 * BASE_LIMIT), 3 * BASE_LIMIT].
C26_InitialLimit ==
    [][\A r \in Requests :
          (/\ reqs[r].pc = "onboardAgent" /\ reqs'[r] # reqs[r]
           /\ onboardAgentReason(OrchSigner, reqs[r].agent) = Ok) =>
             LET factor == getRepFactorByAgentId(reqs[r].handle, reqs[r].feed)
                 initialLimit == agents'[reqs[r].agent].creditLimit
             IN /\ agents'[reqs[r].agent].active
                /\ initialLimit = flooredLimit(factor)
                /\ initialLimit >= flooredLimit(MinFactor)
                /\ initialLimit <= 3 * INITIAL_LIMIT_BASE]_vars

\* the ledger's failure mode an answer of handleBorrow names
FailureMode(message) ==
    IF message = "Agent is frozen" THEN "Account frozen"
    ELSE IF message = "Insufficient credit" THEN "Exceeds limit"
    ELSE message

\* C27: handleBorrow, once ensureActiveAgent has returned, decides as the
\* ledger does: it accepts the borrow exactly when the ledger's borrow
\* accepts it in the state the pool is in, and when it refuses it names the
\* ledger's reason (not active, frozen, exceeds limit, insufficient
\* liquidity).
C27_BorrowDelegates ==
    [][\A r \in Requests :
          (/\ reqs'[r] # reqs[r]
           /\ reqs'[r].kind = "borrow" /\ reqs'[r].pc = "done"
           /\ reqs[r].pc \notin {"handleOnboard", "onboardAgent"}) =>
             LET decision == borrowReason(OrchSigner, reqs'[r].agent, reqs'[r].amount)
             IN /\ reqs'[r].success <=> decision = Ok
                /\ ~reqs'[r].success => FailureMode(reqs'[r].message) = decision]_vars

\* availableCredit(agent) of the ledger
availableCredit(agent) ==
    LET acc == agents[agent]
    IN IF ~acc.active \/ acc.frozen THEN 0
       ELSE IF acc.creditLimit <= acc.principal THEN 0
       ELSE acc.creditLimit - acc.principal

\* C28: the status operation reports as available credit what the ledger's
\* availableCredit gives for the same state, creditLimit - principal or 0,
\* and never a negative figure.
C28_StatusAvailable ==
    [][\A r \in Requests :
          (/\ reqs'[r] # reqs[r]
           /\ reqs'[r].kind = "status" /\ reqs'[r].pc = "done" /\ reqs'[r].success) =>
             /\ reqs'[r].available = availableCredit(reqs'[r].agent)
             /\ reqs'[r].available >= 0]_vars

\* the reputation reader has nothing to go by: the request carries no handle,
\* the query of the feed fails, or the window holds no feedback event
NothingKnown(req) == req.handle = 0 \/ ~req.feed.ok \/ req.feed.scores = <<>>

\* C29: when the identity has no handle, has no feedback event in the window
\* or the feed fails, the factor is 1.0 and nothing of it reaches the caller:
\* handleOnboard goes on to onboard an inactive identity with the limit of
\* factor 1.0, INITIAL_LIMIT_BASE, and fails only if the ledger refuses.
C29_FeedFailureIsNeutral ==
    [][\A r \in Requests :
          /\ (/\ reqs'[r] # reqs[r] /\ reqs'[r].kind = "onboard"
              /\ reqs[r].pc # "onboardAgent"
              /\ NothingKnown(reqs'[r]) /\ ~agents[reqs'[r].agent].active) =>
                /\ getRepFactorByAgentId(reqs'[r].handle, reqs'[r].feed) = One
                /\ reqs'[r].pc = "onboardAgent"
                /\ reqs'[r].limit = INITIAL_LIMIT_BASE
          /\ (/\ reqs'[r] # reqs[r] /\ reqs[r].pc = "onboardAgent"
              /\ NothingKnown(reqs[r])) =>
                LET a == reqs[r].agent
                    res == onboardAgentReason(OrchSigner, a)
                IN IF res = Ok
                   THEN /\ agents'[a].active
                        /\ agents'[a].creditLimit = INITIAL_LIMIT_BASE
                        /\ IF reqs[r].auto THEN reqs'[r].pc = "refresh"
                           ELSE reqs'[r].pc = "done" /\ reqs'[r].success
                   ELSE /\ reqs'[r].pc = "done" /\ ~reqs'[r].success
                        /\ reqs'[r].message \in {res, "Auto-onboarding failed: " \o res}]_vars

\* an onboarding whose query of the feed failed has onboarded the identity
C29_Witness ==
    \E r \in Requests :
        /\ reqs[r].pc = "done" /\ reqs[r].kind = "onboard" /\ reqs[r].success
        /\ reqs[r].handle # 0 /\ ~reqs[r].feed.ok
        /\ lastOp = CalledBy(OrchSigner, "onboardAgent", reqs[r].agent, INITIAL_LIMIT_BASE, Ok)
        /\ agents[reqs[r].agent].creditLimit = INITIAL_LIMIT_BASE

\* the factor the reader returned is the number num / (den * 100)
IsFactor(factor, num, den) == factor.num * den = num * factor.den

C24_LimitCapped ==
    [][/\ calc'.creditLimit.hi >= 0 /\ calc'.creditLimit.lo >= 0
       /\ ~greaterWide(calc'.creditLimit, MAX_LIMIT_WIDE)
       /\ calc.creditLimit = MAX_LIMIT_WIDE => calc'.creditLimit = MAX_LIMIT_WIDE]_vars

\* clamp(x, 0.1, 3.0) in hundredths
Clamped(x) == IF x < 10 THEN 10 ELSE IF x > 300 THEN 300 ELSE x

\* C31: calculateRepFactor returns clamp(1.0 + completionBonus + ageBonus
\* - min(0.25 * slashCount, 1.0), 0.1, 3.0), the completion bonus being 1.0,
\* 0.5, 0.25 or 0 for a completion rate of at least 99%, 95%, 90% or lower
\* (0 without jobs) and the age bonus 0.5, 0.25 or 0 for at least 180, 90 or
\* fewer days; the breakdown it returns adds up to the unclamped value.
C31_LocalFactor ==
    calc.op = "calculateRepFactor" =>
        LET in == calc.inputs
            jobs == in.totalCompleted + in.totalFailed
            completionBonus ==
                IF jobs = 0 THEN 0
                ELSE IF 100 * in.totalCompleted >= 99 * jobs THEN 100
                ELSE IF 100 * in.totalCompleted >= 95 * jobs THEN 50
                ELSE IF 100 * in.totalCompleted >= 90 * jobs THEN 25
                ELSE 0
            ageBonus == IF in.accountAgeDays >= 180 THEN 50
                        ELSE IF in.accountAgeDays >= 90 THEN 25 ELSE 0
            penalty == IF 25 * in.slashCount < 100 THEN 25 * in.slashCount ELSE 100
            unclamped == 100 + completionBonus + ageBonus - penalty
            b == calc.result.breakdown
        IN /\ calc.result.factor = Clamped(unclamped)
           /\ b.base + b.completionBonus + b.ageBonus - b.slashPenalty = unclamped
           /\ b.completionBonus = completionBonus /\ b.ageBonus = ageBonus
           /\ b.slashPenalty = penalty

\* a scoring where the cap of the penalty binds and the bonuses count
C31_Witness ==
    /\ calc.op = "calculateRepFactor"
    /\ calc.inputs = [totalCompleted |-> 99, totalFailed |-> 1,
                      accountAgeDays |-> 180, slashCount |-> 5]
    /\ calc.result.factor = 150

\* the ledger operations, each on the account of one identity
LedgerOps == {"onboardAgent", "setCreditLimit", "borrow", "repay", "freeze", "unfreeze"}

\* C32: a ledger operation on one identity, the accrual it triggers
\* included, leaves the account of every other identity as it was; deposit
\* and withdraw leave every account and the aggregate debt as they were.
C32_OtherAccountsUntouched ==
    [][/\ lastOp'.op \in LedgerOps =>
            \A a \in AgentIds \ {lastOp'.who} : agents'[a] = agents[a]
       /\ lastOp'.op \in {"deposit", "withdraw"} =>
            /\ agents' = agents
            /\ globalTotalDebt' = globalTotalDebt]_vars

\* agent1 has been frozen while agent2 is active, in debt and not frozen
C32_Witness ==
    /\ lastOp = CalledBy(credexAgent, "freeze", "agent1", 0, Ok)
    /\ agents["agent2"].active /\ agents["agent2"].debt > 0
    /\ ~agents["agent2"].frozen

\* C33: tokens moving through the pool's operations only, the pool's token
\* balance equals totalLiquidity after any sequence of deposits, withdrawals,
\* borrows and repayments, so no withdrawal or borrow that passed the
\* totalLiquidity check fails at the payout.
C33_CashCounterIsBalance ==
    /\ usdc[Pool] = totalLiquidity
    /\ lastOp.op \in {"withdraw", "borrow"} => lastOp.res # TokenReason

\* a withdrawal has been paid out while a debt with interest on it is owed
C33_Witness ==
    /\ Did("withdraw") /\ lastOp.amount > 0
    /\ totalLiquidity > 0
    /\ \E a \in AgentIds : agents[a].debt > agents[a].principal

\* C34: the share price never decreases: an operation that takes the pool
\* from (totalAssets, totalShares) = (A, S) to (A', S') with S > 0 and S' > 0
\* has A' * S >= A * S', and the price is never below par (totalAssets >=
\* totalShares while shares exist).
C34_SharePriceNeverDecreases ==
    [][/\ (totalShares > 0 /\ totalShares' > 0) =>
            totalAssets' * totalShares >= totalAssets * totalShares'
       /\ totalShares' > 0 => totalAssets' >= totalShares']_vars

\* a deposit has been priced above par: interest has been accrued before it
C34_Witness ==
    /\ Did("deposit") /\ lastOp.amount > 0
    /\ totalShares > 0 /\ totalAssets > totalShares
    /\ globalTotalDebt > 0

\* C35: in every reachable state, under every interleaving of orchestrator
\* requests, the principal of each account is at most its creditLimit.
C35_PrincipalWithinLimit ==
    \A a \in AgentIds : agents[a].principal <= agents[a].creditLimit

\* C36: an account is charged interest only for the whole intervals that
\* elapsed while it had debt: once an account with zero debt has borrowed at
\* time t, an accrual before t + ACCRUAL_INTERVAL, one at t itself to begin
\* with, adds no interest, however long the account had been idle.
C36_NoInterestForIdleTime ==
    [][(/\ lastOp'.op = "borrow" /\ lastOp'.res = Ok /\ lastOp'.amount > 0
        /\ agents[lastOp'.who].debt = 0) =>
          LET acc == agents'[lastOp'.who]
          IN \A t \in now'..(now' + ACCRUAL_INTERVAL - 1) :
                _accrueInterest(acc, t).debt = acc.debt]_vars

\* a transaction of the request has been mined: its own onboarding (the
\* handler is past it), or its repayment (the handler is at the limit update)
Committed(req) ==
    \/ req.pc \in {"refresh", "setCreditLimit"}
    \/ req.auto /\ req.pc \in {"borrow", "repay"}

\* C37: when handleBorrow or handleRepay answers with a failure, the request
\* has committed no change to the identity's debt, principal or creditLimit
\* and none to totalLiquidity: none before its last step and none in it.
C37_FailureCommitsNothing ==
    [][\A r \in Requests :
          (/\ reqs'[r] # reqs[r]
           /\ reqs'[r].kind \in {"borrow", "repay"}
           /\ reqs'[r].pc = "done" /\ ~reqs'[r].success) =>
             LET a == reqs'[r].agent
             IN /\ ~(reqs[r].pc # "done" /\ Committed(reqs[r]))
                /\ agents'[a].debt = agents[a].debt
                /\ agents'[a].principal = agents[a].principal
                /\ agents'[a].creditLimit = agents[a].creditLimit
                /\ totalLiquidity' = totalLiquidity]_vars

\* C38: handleRepay raises the creditLimit only when its repayment reduced
\* the account's debt by a positive amount: a handler whose repayment was
\* mined against a debt of zero does not go on to update the limit.
C38_GrowthNeedsRepayment ==
    [][\A r \in Requests :
          (/\ reqs[r].pc = "repay" /\ reqs'[r] # reqs[r]
           /\ repayAmount(_accrueInterest(agents[reqs[r].agent], now),
                          reqs[r].amount) = 0) =>
             /\ reqs'[r].pc # "setCreditLimit"
             /\ agents'[reqs[r].agent].creditLimit = agents[reqs[r].agent].creditLimit]_vars

\* C39: every successful deposit of a positive amount mints at least one
\* share to the depositor, in every reachable state of the pool.
C39_DepositMintsAShare ==
    [][(lastOp'.op = "deposit" /\ lastOp'.res = Ok /\ lastOp'.amount > 0) =>
          lpShares'[lastOp'.who] >= lpShares[lastOp'.who] + 1]_vars

\* with no debt outstanding every provider holding shares can withdraw one
\* of them and all of them
Redeemable ==
    globalTotalDebt = 0 =>
        \A p \in LPs :
            lpShares[p] > 0 =>
                /\ withdrawReason(p, 1) = Ok
                /\ withdrawReason(p, lpShares[p]) = Ok

\* C40: while the aggregate debt is 0 withdraw never fails for want of
\* liquidity: a withdrawal of a positive number of shares up to the
\* provider's balance succeeds, and once all debt is repaid every provider
\* can redeem all of its shares.
C40_WithdrawWithoutDebt ==
    [][/\ (lastOp'.op = "withdraw" /\ globalTotalDebt = 0) =>
            /\ lastOp'.res # "Insufficient pool liquidity"
            /\ (lastOp'.amount > 0 /\ lastOp'.amount <= lpShares[lastOp'.who]) =>
                    lastOp'.res = Ok
       /\ Redeemable']_vars

\* a provider has redeemed all of its shares after a debt was repaid in full
\* with interest
C40_Witness ==
    /\ Did("withdraw") /\ lastOp.amount > 0
    /\ lpShares[lastOp.who] = 0
    /\ globalTotalDebt = 0
    /\ \E a \in AgentIds : agents[a].active /\ agents[a].debt = 0 /\ InterestPaid(a) > 0

====
